---------------------------- MODULE Spec2Model ----------------------------
(***************************************************************************)
(* Flight booking system: the seat inventory and the per-order booking     *)
(* workflow.  The repository holds two implementations side by side:       *)
(*                                                                         *)
(*  "mem": the signal-driven BookingWorkflow that keeps the order in       *)
(*         workflow state and calls the in-memory SeatInventory            *)
(*         activities ReserveSeats / ReleaseSeats / ValidatePayment /      *)
(*         ConfirmBooking (src/unnamed/part_001, lines 1-266 and 507-757). *)
(*  "db":  the api-server BookingService on top of the PostgreSQL          *)
(*         Repository, with the database-backed BookingWorkflow and the    *)
(*         worker's Activities (src/unnamed/part_015,                      *)
(*         src/api-server/internal/database/repository.go,                 *)
(*         src/unnamed/part_001 lines 269-505,                             *)
(*         src/temporal-worker/internal/activities/activities.go).         *)
(*                                                                         *)
(* The variable impl says which of the two a behaviour runs; the state of  *)
(* the other one stays at its initial value.                               *)
(*                                                                         *)
(* Time is an integer clock.  One tick is half a seat-hold period, so the  *)
(* 15 minute hold is 2 ticks; only the order of instants matters to the    *)
(* code (time.Now().After(expiry), expiry.Sub(now) <= 0).                  *)
(***************************************************************************)
EXTENDS Integers, Sequences, FiniteSets, TLC

Orders == {"o1", "o2"}
Seats == {"s1", "s2"}

None == "none"
\* The zero time.Time / SQL NULL timestamp.
NoTime == 0

\* The clock stops here.
MaxTime == 4
\* The number of signals sent to the in-memory workflows in one behaviour.
MaxSignals == 2
\* The number of requests sent to the BookingService in one behaviour.
MaxRequests == 3
\* The same when a single order is driven.
MaxSoloRequests == 5

\* SeatHoldDuration / SeatHoldTimeout = 15 * time.Minute, in ticks.
SeatHoldDuration == 2
\* MaxPaymentRetries / MaxPaymentAttempts / maxAttempts.
MaxPaymentRetries == 3

\* InitializeInventory gives every seat of a flight one price.
Price(s) == 1

\* The seat lists a request names.
SeatLists == {<<"s1">>, <<"s2">>, <<"s1", "s2">>}

\* Payment codes by what ValidatePayment makes of them.
Codes == {"wellformed", "malformed"}

SeqToSet(q) == {q[i] : i \in 1..Len(q)}

Terminal == {"confirmed", "failed", "cancelled", "expired"}

VARIABLES
    impl,       \* "mem" | "db"
    now,        \* the clock
    \* ---- mem: SeatInventory
    inv,        \* [status, holds, expiry]: seat -> ...
    \* ---- mem: BookingWorkflow, one per order
    wf,         \* order -> [pc, status, seatIDs, total, attempts, holdExpiry, failure, attempt, sig]
    pendingRel, \* ReleaseSeats activities started and not awaited
    \* ---- db: PostgreSQL tables
    seats,      \* seat -> [status, held_by_order, held_until]
    orders,     \* order -> [status, payment_attempts, reservation_expires_at,
                \*           seats, total_amount, failure_reason]
    \* ---- db: BookingService requests and the database-backed BookingWorkflow
    passed,     \* order -> SubmitPayment calls past their checks, not yet written
    bwf,        \* order -> [pc, seatsSelected, paymentAttempts, reservationExpiry, timer]
    signals,    \* order -> [sel: expiresAt of queued seats-selected, pay: queued payment-submitted]
    acts,       \* activities started and not awaited
    \* ---- db: HoldSeats transactions run statement by statement
    tx,         \* order -> [pc, ids, k, until, locked, rows, result]
    \* ---- db: BookingService.GetOrder calls and their broadcasts
    calls,      \* caller -> [pc, order, status, n]
    broadcastedOrders,  \* the keys stored in the sync.Map
    sent,       \* order -> [completed, expired]: broadcasts sent by GetOrder
    \* ---- both
    validated,  \* order -> number of ValidatePayment executions
    actors,     \* the orders that receive signals and requests
    budget      \* signals and requests the environment may still send

memVars == <<inv, wf, pendingRel>>
dbVars == <<seats, orders, passed, bwf, signals, acts>>
getVars == <<calls, broadcastedOrders, sent>>
vars == <<impl, now, inv, wf, pendingRel, seats, orders, passed, bwf, signals,
          acts, tx, calls, broadcastedOrders, sent, validated, actors, budget>>

-----------------------------------------------------------------------------
(* The in-memory seat inventory (activities package).                      *)

\* InitializeInventory: every seat available, no holds, no expiries.
InitInventory ==
    [status |-> [s \in Seats |-> "available"],
     holds  |-> [s \in Seats |-> None],
     expiry |-> [s \in Seats |-> NoTime]]

\* delete(inventory.holds, seatID); delete(inventory.expiry, seatID) with a status.
ClearSeat(i, s, st) ==
    [status |-> [i.status EXCEPT ![s] = st],
     holds  |-> [i.holds EXCEPT ![s] = None],
     expiry |-> [i.expiry EXCEPT ![s] = NoTime]]

\* A hold that never counts as expired.
HoldExpiredNever(i, s, t) == FALSE

\* A hold that counts as expired as soon as it has an expiry.
HoldExpiredAtOnce(i, s, t) == i.expiry[s] # NoTime

\* time.Now().After(expiry) for a seat that has an expiry entry.
HoldExpired(i, s, t) == i.expiry[s] # NoTime /\ t > i.expiry[s]

\* ReserveSeats, first loop: check the seats in order.  An expired hold of
\* another order is cleared on the way, before a later seat may fail.  The
\* error names the seat the loop stopped at (named).
RECURSIVE ReserveCheck(_, _, _, _, _, _)
ReserveCheck(i, o, ids, k, total, t) ==
    IF k > Len(ids) THEN [ok |-> TRUE, inv |-> i, total |-> total, err |-> "", named |-> {}]
    ELSE LET s == ids[k] IN
         IF s \notin Seats
         THEN [ok |-> FALSE, inv |-> i, total |-> 0, err |-> "not found", named |-> {s}]
         ELSE IF i.status[s] # "available"
         THEN IF i.holds[s] = o
              THEN ReserveCheck(i, o, ids, k + 1, total, t)
              ELSE IF HoldExpired(i, s, t)
              THEN ReserveCheck(ClearSeat(i, s, "available"), o, ids, k + 1,
                                total + Price(s), t)
              ELSE [ok |-> FALSE, inv |-> i, total |-> 0, err |-> "not available",
                    named |-> {s}]
         ELSE ReserveCheck(i, o, ids, k + 1, total + Price(s), t)

\* A second loop that holds the first seat only.
ReserveHead(i, o, ids, until) ==
    [status |-> [i.status EXCEPT ![ids[1]] = "held"],
     holds  |-> [i.holds EXCEPT ![ids[1]] = o],
     expiry |-> [i.expiry EXCEPT ![ids[1]] = until]]

\* ReserveSeats, second loop: hold every seat until one common expiry.
ReserveAll(i, o, ids, until) ==
    [status |-> [s \in Seats |-> IF s \in SeqToSet(ids) THEN "held" ELSE i.status[s]],
     holds  |-> [s \in Seats |-> IF s \in SeqToSet(ids) THEN o ELSE i.holds[s]],
     expiry |-> [s \in Seats |-> IF s \in SeqToSet(ids) THEN until ELSE i.expiry[s]]]

\* ReserveSeats(orderID, flightID, seatIDs) at time t.
ReserveSeats(i, o, ids, t) ==
    LET c == ReserveCheck(i, o, ids, 1, 0, t) IN
    IF c.ok
    THEN [ok |-> TRUE, inv |-> ReserveAll(c.inv, o, ids, t + SeatHoldDuration),
          total |-> c.total, holdExpiry |-> t + SeatHoldDuration, err |-> "",
          named |-> {}]
    ELSE [ok |-> FALSE, inv |-> c.inv, total |-> 0, holdExpiry |-> NoTime, err |-> c.err,
          named |-> c.named]

\* ReleaseSeats(orderID, seatIDs): only the seats this order holds.
RECURSIVE ReleaseSeats(_, _, _, _)
ReleaseSeats(i, o, ids, k) ==
    IF k > Len(ids) THEN i
    ELSE LET s == ids[k] IN
         IF s \in Seats /\ i.holds[s] = o
         THEN ReleaseSeats(ClearSeat(i, s, "available"), o, ids, k + 1)
         ELSE ReleaseSeats(i, o, ids, k + 1)

\* ConfirmBooking(orderID, seatIDs): books seat by seat and returns at the
\* first seat the order does not hold, keeping the seats already booked.
RECURSIVE ConfirmBooking(_, _, _, _)
ConfirmBooking(i, o, ids, k) ==
    IF k > Len(ids) THEN [ok |-> TRUE, inv |-> i, err |-> ""]
    ELSE LET s == ids[k] IN
         IF s \notin Seats THEN [ok |-> FALSE, inv |-> i, err |-> "not found"]
         ELSE IF i.holds[s] # o THEN [ok |-> FALSE, inv |-> i, err |-> "not held"]
         ELSE ConfirmBooking(ClearSeat(i, s, "booked"), o, ids, k + 1)

\* A validator whose every failure is final.
ValidatePaymentFinal(code) ==
    {[success |-> FALSE, canRetry |-> FALSE, err |-> "declined"]}

\* ValidatePayment: the outcomes for a code.  A code that is not 5 digits is
\* refused without retry; otherwise the provider accepts or declines
\* (rand.Float64() < PaymentFailureRate), or the activity times out, which
\* validatePayment turns into a retryable failure.
ValidatePayment(code) ==
    IF code = "malformed"
    THEN {[success |-> FALSE, canRetry |-> FALSE, err |-> "malformed"]}
    ELSE {[success |-> TRUE, canRetry |-> FALSE, err |-> ""],
          [success |-> FALSE, canRetry |-> TRUE, err |-> "declined"],
          [success |-> FALSE, canRetry |-> TRUE, err |-> "timeout"]}


-----------------------------------------------------------------------------
(* The signal-driven BookingWorkflow ("mem").                              *)

\* state := &models.BookingWorkflowState{Status: pending}; nothing received.
InitWorkflowState ==
    [pc |-> "start", status |-> "pending", seatIDs |-> <<>>, total |-> 0,
     attempts |-> 0, holdExpiry |-> NoTime, failure |-> "", attempt |-> 0,
     sig |-> <<>>]

InitMem ==
    /\ inv = InitInventory
    /\ wf = [o \in Orders |-> InitWorkflowState]
    /\ pendingRel = {}

\* releaseSeats(ctx, orderID, seatIDs): the activity is started and its
\* future is dropped; it runs later, or not at all once the workflow is gone.
StartRelease(pr, o, ids) ==
    IF ids = <<>> THEN pr ELSE pr \cup {[order |-> o, seats |-> ids]}

\* The top of the main loop, reached when a handler returns with the order
\* not terminal: an expiry that is not in the future ends the order.
\* Gives <<workflow state, release list or <<>> >>.
LoopTop(w, t) ==
    IF w.status \in Terminal
    THEN <<[w EXCEPT !.pc = "done", !.sig = <<>>, !.attempt = 0], <<>>>>
    ELSE IF w.holdExpiry # NoTime /\ w.holdExpiry - t <= 0
    THEN <<[w EXCEPT !.pc = "done", !.status = "expired", !.sig = <<>>,
                     !.attempt = 0, !.failure = "Seat hold expired"], w.seatIDs>>
    ELSE <<[w EXCEPT !.pc = "wait", !.sig = <<>>, !.attempt = 0], <<>>>>

\* A handler has returned with workflow state w, having started the
\* releases of rel (a seat list or <<>>).
Return(o, w, rel) ==
    LET lt == LoopTop(w, now) IN
    /\ wf' = [wf EXCEPT ![o] = lt[1]]
    /\ pendingRel' = StartRelease(StartRelease(pendingRel, o, rel), o, lt[2])

\* The workflow starts; seats given in the input are reserved at once.
MStart(o, ids) ==
    /\ impl = "mem"
    /\ wf[o].pc = "start"
    /\ IF ids = <<>>
       THEN /\ Return(o, wf[o], <<>>)
            /\ UNCHANGED inv
       ELSE LET r == ReserveSeats(inv, o, ids, now) IN
            /\ inv' = r.inv
            /\ IF r.ok
               THEN Return(o, [wf[o] EXCEPT !.seatIDs = ids, !.total = r.total,
                                            !.holdExpiry = r.holdExpiry,
                                            !.status = "seats_selected"], <<>>)
               ELSE Return(o, [wf[o] EXCEPT !.status = "failed", !.failure = r.err],
                           <<>>)
    /\ UNCHANGED <<impl, tx, getVars, now, validated, actors, budget, dbVars>>

\* select-seats signal: the held seats are released (not awaited), then the
\* new seats are reserved.
MSelectSeats(o, ids) ==
    /\ impl = "mem"
    /\ o \in actors
    /\ budget > 0
    /\ budget' = budget - 1
    /\ wf[o].pc = "wait"
    /\ wf' = [wf EXCEPT ![o] = [@ EXCEPT !.pc = "reserve", !.sig = ids]]
    /\ pendingRel' = StartRelease(pendingRel, o, wf[o].seatIDs)
    /\ UNCHANGED <<impl, tx, getVars, now, inv, validated, actors, dbVars>>

MReserve(o) ==
    /\ impl = "mem"
    /\ wf[o].pc = "reserve"
    /\ LET r == ReserveSeats(inv, o, wf[o].sig, now) IN
       /\ inv' = r.inv
       /\ IF r.ok
          THEN Return(o, [wf[o] EXCEPT !.seatIDs = wf[o].sig, !.total = r.total,
                                       !.holdExpiry = r.holdExpiry,
                                       !.status = "seats_selected",
                                       !.failure = ""], <<>>)
          ELSE Return(o, [wf[o] EXCEPT !.failure = r.err], <<>>)
    /\ UNCHANGED <<impl, tx, getVars, now, validated, actors, budget, dbVars>>

\* submit-payment signal.
MSubmitPayment(o, code) ==
    /\ impl = "mem"
    /\ o \in actors
    /\ budget > 0
    /\ budget' = budget - 1
    /\ wf[o].pc = "wait"
    /\ IF wf[o].seatIDs = <<>>
       THEN Return(o, [wf[o] EXCEPT !.failure = "No seats selected"], <<>>)
       ELSE /\ wf' = [wf EXCEPT ![o] = [@ EXCEPT !.pc = "validate",
                                                 !.status = "processing",
                                                 !.attempt = 1, !.attempts = 1,
                                                 !.sig = <<code>>]]
            /\ UNCHANGED pendingRel
    /\ UNCHANGED <<impl, tx, getVars, now, inv, validated, actors, dbVars>>

\* One iteration of the payment loop: validatePayment and what follows it.
\* After a retryable failure the loop sleeps a second and starts the next
\* iteration (state.PaymentAttempts = attempt), which is part of this step.
MValidateResult(o, res) ==
    /\ impl = "mem"
    /\ wf[o].pc = "validate"
    /\ validated' = [validated EXCEPT ![o] = @ + 1]
    /\    IF res.success
          THEN /\ wf' = [wf EXCEPT ![o] = [@ EXCEPT !.pc = "confirm"]]
               /\ UNCHANGED pendingRel
          ELSE IF ~res.canRetry \/ wf[o].attempt >= MaxPaymentRetries
          THEN Return(o, [wf[o] EXCEPT !.status = "failed", !.failure = res.err],
                      wf[o].seatIDs)
          ELSE /\ wf' = [wf EXCEPT ![o] = [@ EXCEPT !.attempt = @ + 1,
                                                    !.attempts = wf[o].attempt + 1]]
               /\ UNCHANGED pendingRel
    /\ UNCHANGED <<impl, tx, getVars, now, inv, actors, budget, dbVars>>

MValidate(o) ==
    /\ wf[o].pc = "validate"
    /\ \E res \in ValidatePayment(wf[o].sig[1]) : MValidateResult(o, res)

\* confirmBooking after a successful validation.
MConfirm(o) ==
    /\ impl = "mem"
    /\ wf[o].pc = "confirm"
    /\ LET c == ConfirmBooking(inv, o, wf[o].seatIDs, 1) IN
       /\ inv' = c.inv
       /\ IF c.ok
          THEN Return(o, [wf[o] EXCEPT !.status = "confirmed", !.failure = ""], <<>>)
          ELSE Return(o, [wf[o] EXCEPT !.status = "failed", !.failure = c.err], <<>>)
    /\ UNCHANGED <<impl, tx, getVars, now, validated, actors, budget, dbVars>>

\* cancel signal.
MCancel(o) ==
    /\ impl = "mem"
    /\ o \in actors
    /\ budget > 0
    /\ budget' = budget - 1
    /\ wf[o].pc = "wait"
    /\ Return(o, [wf[o] EXCEPT !.status = "cancelled"], wf[o].seatIDs)
    /\ UNCHANGED <<impl, tx, getVars, now, inv, validated, actors, dbVars>>

\* refresh-timer signal.
MRefreshTimer(o) ==
    /\ impl = "mem"
    /\ o \in actors
    /\ budget > 0
    /\ budget' = budget - 1
    /\ wf[o].pc = "wait"
    /\ IF wf[o].seatIDs # <<>> /\ wf[o].status = "seats_selected"
       THEN Return(o, [wf[o] EXCEPT !.holdExpiry = now + SeatHoldDuration], <<>>)
       ELSE Return(o, wf[o], <<>>)
    /\ UNCHANGED <<impl, tx, getVars, now, inv, validated, actors, dbVars>>

\* A timer that never becomes due.
MTimerNever(o) == FALSE

\* The timer of this loop iteration is due.
MTimerDue(o) ==
    /\ wf[o].pc = "wait"
    /\ wf[o].holdExpiry # NoTime
    /\ now >= wf[o].holdExpiry

\* The hold timer fires.
MTimer(o) ==
    /\ impl = "mem"
    /\ MTimerDue(o)
    /\ IF wf[o].status = "seats_selected"
       THEN Return(o, [wf[o] EXCEPT !.status = "expired",
                                    !.failure = "Seat hold expired"], wf[o].seatIDs)
       ELSE Return(o, wf[o], <<>>)
    /\ UNCHANGED <<impl, tx, getVars, now, inv, validated, actors, budget, dbVars>>

\* A started ReleaseSeats activity runs.  Nothing makes it run: the
\* activity of a workflow that has returned in the meantime may never be
\* picked up, and then stays in pendingRel for good.
MExecRelease(r) ==
    /\ impl = "mem"
    /\ r \in pendingRel
    /\ inv' = ReleaseSeats(inv, r.order, r.seats, 1)
    /\ pendingRel' = pendingRel \ {r}
    /\ UNCHANGED <<impl, tx, getVars, now, wf, validated, actors, budget, dbVars>>

-----------------------------------------------------------------------------
(* The PostgreSQL repository ("db"): the seats and orders tables.          *)

FreeSeat == [status |-> "available", held_by_order |-> None, held_until |-> NoTime]

InitOrder ==
    [status |-> "pending", payment_attempts |-> 0, reservation_expires_at |-> NoTime,
     seats |-> {}, total_amount |-> 0, failure_reason |-> ""]

\* UPDATE seats SET status = 'available', held_until = NULL, held_by_order = NULL
\* WHERE held_by_order = $1   (Repository.ReleaseSeats, and HoldSeats' first statement)
RepoReleaseSeats(st, o) ==
    [s \in Seats |-> IF st[s].held_by_order = o THEN FreeSeat ELSE st[s]]

\* HoldSeats, the loop: UPDATE ... WHERE id = $3 AND (status = 'available' OR
\* held_by_order = $2); no row updated is ErrSeatNotAvailable.
RECURSIVE HoldLoop(_, _, _, _, _)
HoldLoop(st, o, ids, k, until) ==
    IF k > Len(ids) THEN [ok |-> TRUE, seats |-> st]
    ELSE LET s == ids[k] IN
         IF st[s].status = "available" \/ st[s].held_by_order = o
         THEN HoldLoop([st EXCEPT ![s] = [status |-> "held", held_by_order |-> o,
                                           held_until |-> until]],
                       o, ids, k + 1, until)
         ELSE [ok |-> FALSE, seats |-> st]

\* HoldSeats(orderID, seatIDs) at time t, one transaction: on an error the
\* deferred Rollback undoes the release and the holds made so far.
HoldSeats(st, ord, o, ids, t) ==
    LET until == t + SeatHoldDuration
        h == HoldLoop(RepoReleaseSeats(st, o), o, ids, 1, until) IN
    IF h.ok
    THEN [ok |-> TRUE, seats |-> h.seats,
          orders |-> [ord EXCEPT ![o].reservation_expires_at = until,
                                 ![o].status = "seats_selected"]]
    ELSE [ok |-> FALSE, seats |-> st, orders |-> ord]

\* BookSeats: UPDATE seats SET status = 'booked', held_until = NULL
\* WHERE held_by_order = $1 AND status = 'held'.
BookSeats(st, o) ==
    [s \in Seats |-> IF st[s].held_by_order = o /\ st[s].status = "held"
                     THEN [st[s] EXCEPT !.status = "booked", !.held_until = NoTime]
                     ELSE st[s]]

\* release_expired_holds(): status = 'held' AND held_until < CURRENT_TIMESTAMP.
release_expired_holds(st, t) ==
    [s \in Seats |-> IF st[s].status = "held" /\ st[s].held_until < t
                     THEN FreeSeat ELSE st[s]]

UpdateOrderStatus(ord, o, status) == [ord EXCEPT ![o].status = status]

\* A payment update that also restarts the reservation.
UpdateOrderPaymentRearm(ord, o, attempts, reason) ==
    [ord EXCEPT ![o].payment_attempts = attempts, ![o].failure_reason = reason,
                ![o].reservation_expires_at = now + SeatHoldDuration]

UpdateOrderPayment(ord, o, attempts, reason) ==
    [ord EXCEPT ![o].payment_attempts = attempts, ![o].failure_reason = reason]

RECURSIVE SumPrice(_, _)
SumPrice(ids, k) == IF k > Len(ids) THEN 0 ELSE Price(ids[k]) + SumPrice(ids, k + 1)

\* SetOrderSeats: order_seats replaced, total_amount recomputed.
SetOrderSeats(ord, o, ids) ==
    [ord EXCEPT ![o].seats = SeqToSet(ids), ![o].total_amount = SumPrice(ids, 1)]

\* GetOrderRemainingSeconds(...) <= 0: no expiry stored, or none of it left.
NoTimeRemaining(ord, o, t) ==
    \/ ord[o].reservation_expires_at = NoTime
    \/ ord[o].reservation_expires_at - t <= 0

-----------------------------------------------------------------------------
(* BookingService ("db"): the requests of the api server.                  *)

\* SignalWorkflow: queued unless the workflow has closed (the error is
\* logged or returned after the database has been written).
Signal(o, q) == IF bwf[o].pc = "done" THEN signals ELSE [signals EXCEPT ![o] = q]

\* SelectSeats: HoldSeats, SetOrderSeats, then the seats-selected signal
\* with expiresAt = time.Now().Add(15 * time.Minute).
SvcSelectSeats(o, ids) ==
    /\ impl = "db"
    /\ o \in actors
    /\ budget > 0
    /\ budget' = budget - 1
    /\ LET h == HoldSeats(seats, orders, o, ids, now) IN
       IF h.ok
       THEN /\ seats' = h.seats
            /\ orders' = SetOrderSeats(h.orders, o, ids)
            /\ signals' = Signal(o, [signals[o] EXCEPT
                                       !.sel = Append(@, now + SeatHoldDuration)])
       ELSE UNCHANGED <<seats, orders, signals>>
    /\ UNCHANGED <<impl, tx, getVars, now, memVars, passed, bwf, acts, validated, actors>>

\* SubmitPayment up to its last check: the order is read and the request
\* is refused, answered, or let through to the write below.
SvcSubmitPayment(o) ==
    /\ impl = "db"
    /\ o \in actors
    /\ budget > 0
    /\ budget' = budget - 1
    /\ IF orders[o].status \in Terminal \/ orders[o].status = "processing"
       THEN UNCHANGED <<seats, orders, passed>>
       ELSE IF orders[o].payment_attempts >= MaxPaymentRetries
       THEN /\ orders' = UpdateOrderPayment(UpdateOrderStatus(orders, o, "failed"), o,
                             orders[o].payment_attempts,
                             "Maximum payment attempts exceeded")
            /\ UNCHANGED <<seats, passed>>
       ELSE IF NoTimeRemaining(orders, o, now)
       THEN /\ orders' = UpdateOrderStatus(orders, o, "expired")
            /\ seats' = RepoReleaseSeats(seats, o)
            /\ UNCHANGED passed
       ELSE /\ passed' = [passed EXCEPT ![o] = @ + 1]
            /\ UNCHANGED <<seats, orders>>
    /\ UNCHANGED <<impl, tx, getVars, now, memVars, bwf, signals, acts, validated, actors>>

\* SubmitPayment after its checks: status processing, then the
\* payment-submitted signal.
SvcSignalPayment(o) ==
    /\ impl = "db"
    /\ passed[o] > 0
    /\ passed' = [passed EXCEPT ![o] = @ - 1]
    /\ orders' = UpdateOrderStatus(orders, o, "processing")
    /\ signals' = Signal(o, [signals[o] EXCEPT !.pay = @ + 1])
    /\ UNCHANGED <<impl, tx, getVars, now, memVars, seats, bwf, acts, validated, actors, budget>>

\* CancelOrder: ReleaseSeats, status cancelled, CancelWorkflow.  A cancelled
\* workflow schedules nothing more; an activity it is waiting for runs on.
SvcCancelOrder(o) ==
    /\ impl = "db"
    /\ o \in actors
    /\ budget > 0
    /\ budget' = budget - 1
    /\ seats' = RepoReleaseSeats(seats, o)
    /\ orders' = UpdateOrderStatus(orders, o, "cancelled")
    /\ bwf' = [bwf EXCEPT ![o] = [@ EXCEPT !.cancelled = TRUE,
                                           !.pc = IF @ = "wait" THEN "done" ELSE @,
                                           !.timer = NoTime]]
    /\ signals' = [signals EXCEPT ![o] = [sel |-> <<>>, pay |-> 0]]
    /\ UNCHANGED <<impl, tx, getVars, now, memVars, passed, acts, validated, actors>>

\* GetFlightSeats: release_expired_holds() before the seats are read.
SvcGetFlightSeats ==
    /\ impl = "db"
    /\ seats' = release_expired_holds(seats, now)
    /\ seats' # seats
    /\ UNCHANGED <<impl, tx, getVars, now, memVars, orders, passed, bwf, signals, acts,
                   validated, actors, budget>>

-----------------------------------------------------------------------------
(* The database-backed BookingWorkflow and the worker's Activities ("db"). *)

InitBookingWorkflow ==
    [pc |-> "wait", seatsSelected |-> FALSE, paymentAttempts |-> 0,
     reservationExpiry |-> NoTime, timer |-> NoTime, cancelled |-> FALSE]

InitDB ==
    /\ seats = [s \in Seats |-> FreeSeat]
    /\ orders = [o \in Orders |-> InitOrder]
    /\ passed = [o \in Orders |-> 0]
    /\ bwf = [o \in Orders |-> InitBookingWorkflow]
    /\ signals = [o \in Orders |-> [sel |-> <<>>, pay |-> 0]]
    /\ acts = {}

\* getOrderStatus(ctx, orderID): the status the completion check reads.
getOrderStatus == "in_progress"

\* The end of a loop iteration and the next one: the workflow returns when
\* getOrderStatus gives a terminal status or the context is cancelled;
\* otherwise the selector gets a timer when seats are selected and the
\* expiry is in the future.
NextSelect(w, t) ==
    IF getOrderStatus \in Terminal \/ w.cancelled
    THEN [w EXCEPT !.pc = "done", !.timer = NoTime]
    ELSE [w EXCEPT !.pc = "wait",
                   !.timer = IF /\ w.seatsSelected
                                /\ w.reservationExpiry # NoTime
                                /\ w.reservationExpiry - t > 0
                             THEN w.reservationExpiry ELSE NoTime]

\* workflow.ExecuteActivity(...) whose future is dropped.
StartActivity(as, o, name, arg) == as \cup {[order |-> o, name |-> name, arg |-> arg]}

\* seats-selected handler.
BSeatsSelected(o) ==
    /\ impl = "db"
    /\ bwf[o].pc = "wait"
    /\ signals[o].sel # <<>>
    /\ signals' = [signals EXCEPT ![o].sel = Tail(@)]
    /\ bwf' = [bwf EXCEPT ![o] = NextSelect([@ EXCEPT !.seatsSelected = TRUE,
                               !.reservationExpiry = Head(signals[o].sel)], now)]
    /\ acts' = StartActivity(acts, o, "UpdateOrderStatus", "seats_selected")
    /\ UNCHANGED <<impl, tx, getVars, now, memVars, seats, orders, passed, validated, actors, budget>>

\* payment-submitted handler up to the ValidatePayment activity.
BPaymentSubmitted(o) ==
    /\ impl = "db"
    /\ bwf[o].pc = "wait"
    /\ signals[o].sel = <<>>
    /\ signals[o].pay > 0
    /\ signals' = [signals EXCEPT ![o].pay = @ - 1]
    /\ IF ~bwf[o].seatsSelected
       THEN /\ bwf' = [bwf EXCEPT ![o] = NextSelect(@, now)]
            /\ UNCHANGED acts
       ELSE IF now > bwf[o].reservationExpiry
       THEN /\ bwf' = [bwf EXCEPT ![o] = NextSelect(@, now)]
            /\ acts' = StartActivity(acts, o, "ReleaseSeats", "expired")
       ELSE /\ bwf' = [bwf EXCEPT ![o] = [@ EXCEPT !.pc = "validate",
                                                   !.paymentAttempts = @ + 1]]
            /\ acts' = StartActivity(acts, o, "UpdateOrderStatus", "processing")
    /\ UNCHANGED <<impl, tx, getVars, now, memVars, seats, orders, passed, validated, actors, budget>>

\* Activities.ValidatePayment and the rest of the handler: the provider
\* accepts (status confirmed, BookSeats still to run), declines
\* (UpdateOrderPayment, then release or retry), or the activity errs.
ValidatePaymentOutcome(o, outcome) ==
    /\ impl = "db"
    /\ bwf[o].pc = "validate"
    /\ validated' = [validated EXCEPT ![o] = @ + 1]
    /\    CASE outcome = "success" ->
                 /\ orders' = UpdateOrderStatus(orders, o, "confirmed")
                 /\ bwf' = [bwf EXCEPT ![o].pc = "book"]
                 /\ UNCHANGED acts
            [] outcome = "declined" ->
                 /\ orders' = UpdateOrderPayment(orders, o, bwf[o].paymentAttempts,
                                                 "Payment validation failed")
                 /\ bwf' = [bwf EXCEPT ![o] = NextSelect(@, now)]
                 /\ acts' = IF bwf[o].cancelled THEN acts
                            ELSE IF bwf[o].paymentAttempts >= MaxPaymentRetries
                            THEN StartActivity(acts, o, "ReleaseSeats", "payment_failed")
                            ELSE StartActivity(acts, o, "UpdateOrderStatus",
                                               "awaiting_payment")
            [] outcome = "error" ->
                 /\ bwf' = [bwf EXCEPT ![o] = NextSelect(@, now)]
                 /\ UNCHANGED <<orders, acts>>
    /\ UNCHANGED <<impl, tx, getVars, now, memVars, seats, passed, signals, actors, budget>>

BValidatePayment(o) ==
    \E outcome \in {"success", "declined", "error"} : ValidatePaymentOutcome(o, outcome)

\* Activities.ValidatePayment, second write of the success branch.
BBookSeats(o) ==
    /\ impl = "db"
    /\ bwf[o].pc = "book"
    /\ seats' = BookSeats(seats, o)
    /\ bwf' = [bwf EXCEPT ![o] = NextSelect(@, now)]
    /\ UNCHANGED <<impl, tx, getVars, now, memVars, orders, passed, signals, acts, validated,
                   actors, budget>>

\* The reservation timer of this loop iteration has run out.
BTimerDue(o) ==
    /\ bwf[o].pc = "wait"
    /\ bwf[o].timer # NoTime
    /\ now > bwf[o].timer

\* CheckReservationExpiry: time.Now().After(*expiresAt), an error without
\* a stored expiry.
CheckReservationExpiry(ord, o, t) ==
    ord[o].reservation_expires_at # NoTime /\ t > ord[o].reservation_expires_at

\* The timer callback.
BTimer(o) ==
    /\ impl = "db"
    /\ BTimerDue(o)
    /\ signals[o].sel = <<>>
    /\ signals[o].pay = 0
    /\ bwf' = [bwf EXCEPT ![o] = NextSelect(@, now)]
    /\ acts' = IF CheckReservationExpiry(orders, o, now)
               THEN StartActivity(acts, o, "ReleaseSeats", "expired")
               ELSE acts
    /\ UNCHANGED <<impl, tx, getVars, now, memVars, seats, orders, passed, signals, validated,
                   actors, budget>>

\* Activities.ReleaseSeats: the status that goes with the reason.
ReleaseStatus(reason) ==
    CASE reason = "expired" -> "expired"
      [] reason = "cancelled" -> "cancelled"
      [] OTHER -> "failed"

\* A started activity runs: UpdateOrderStatus, or ReleaseSeats with its
\* status update.
BExecActivity(a) ==
    /\ impl = "db"
    /\ a \in acts
    /\ acts' = acts \ {a}
    /\ IF a.name = "UpdateOrderStatus"
       THEN /\ orders' = UpdateOrderStatus(orders, a.order, a.arg)
            /\ UNCHANGED seats
       ELSE /\ seats' = RepoReleaseSeats(seats, a.order)
            /\ orders' = UpdateOrderStatus(orders, a.order, ReleaseStatus(a.arg))
    /\ UNCHANGED <<impl, tx, getVars, now, memVars, passed, bwf, signals, validated, actors, budget>>

-----------------------------------------------------------------------------
\* Time passes; a due timer fires before the clock moves on.
Tick ==
    /\ now < MaxTime
    /\ \A o \in Orders : ~(impl = "mem" /\ MTimerDue(o))
    /\ \A o \in Orders : ~(impl = "db" /\ BTimerDue(o) /\ signals[o].sel = <<>>
                                       /\ signals[o].pay = 0)
    /\ now' = now + 1
    /\ UNCHANGED <<impl, tx, getVars, memVars, dbVars, validated, actors, budget>>

NextMem ==
    \/ \E o \in Orders : \E ids \in SeatLists \cup {<<>>} : MStart(o, ids)
    \/ \E o \in Orders : \E ids \in SeatLists : MSelectSeats(o, ids)
    \/ \E o \in Orders : MReserve(o)
    \/ \E o \in Orders : \E code \in Codes : MSubmitPayment(o, code)
    \/ \E o \in Orders : MValidate(o)
    \/ \E o \in Orders : MConfirm(o)
    \/ \E o \in Orders : MCancel(o)
    \/ \E o \in Orders : MRefreshTimer(o)
    \/ \E o \in Orders : MTimer(o)
    \/ \E r \in pendingRel : MExecRelease(r)
    \/ Tick

NextDB ==
    \/ \E o \in Orders : \E ids \in SeatLists : SvcSelectSeats(o, ids)
    \/ \E o \in Orders : SvcSubmitPayment(o)
    \/ \E o \in Orders : SvcSignalPayment(o)
    \/ \E o \in Orders : SvcCancelOrder(o)
    \/ SvcGetFlightSeats
    \/ \E o \in Orders : BSeatsSelected(o)
    \/ \E o \in Orders : BPaymentSubmitted(o)
    \/ \E o \in Orders : BValidatePayment(o)
    \/ \E o \in Orders : BBookSeats(o)
    \/ \E o \in Orders : BTimer(o)
    \/ \E a \in acts : BExecActivity(a)
    \/ Tick

\* No transaction of HoldSeats begun.
IdleTx ==
    [pc |-> "idle", ids |-> <<>>, k |-> 0, until |-> NoTime, locked |-> {},
     rows |-> [s \in Seats |-> FreeSeat], result |-> ""]

\* The clients that call GetOrder.
Callers == {"c1", "c2"}

\* No GetOrder call made, nothing stored in broadcastedOrders.
InitGetOrder ==
    /\ calls = [c \in Callers |-> [pc |-> "idle", order |-> None, status |-> "", n |-> 0]]
    /\ broadcastedOrders = {}
    /\ sent = [o \in Orders |-> [completed |-> 0, expired |-> 0]]

InitCommon ==
    /\ now = 1
    /\ validated = [o \in Orders |-> 0]
    /\ tx = [o \in Orders |-> IdleTx]
    /\ InitGetOrder
    /\ InitMem
    /\ InitDB

Next == NextMem \/ NextDB

InitMemBoth == impl = "mem" /\ actors = Orders /\ budget = MaxSignals /\ InitCommon

InitDBBoth == impl = "db" /\ actors = Orders /\ budget = MaxRequests /\ InitCommon

InitDBSolo == impl = "db" /\ actors = {"o1"} /\ budget = MaxSoloRequests /\ InitCommon

Init == InitMemBoth \/ InitDBBoth

\* The in-memory implementation, both orders driven by signals.
SpecMem == InitMemBoth /\ [][NextMem]_vars

\* The database implementation, both orders driven by requests.
SpecDB == InitDBBoth /\ [][NextDB]_vars

\* The database implementation, one order driven by a longer run of requests.
SpecDBSolo == InitDBSolo /\ [][NextDB]_vars

\* Either implementation.
Spec == Init /\ [][Next]_vars

InitMemSolo == impl = "mem" /\ actors = {"o1"} /\ budget = MaxSignals /\ InitCommon

\* Every release the workflow can start.
Releases == [order : Orders, seats : SeatLists]

\* What the scheduling guarantees of the in-memory implementation: time
\* passes, an awaited activity (.Get) completes, a due timer fires, and a
\* started release runs as long as its workflow has not returned.  A release
\* whose workflow has returned is owed nothing.
FairMem ==
    /\ WF_vars(Tick)
    /\ \A o \in Orders : /\ WF_vars(MReserve(o))
                         /\ WF_vars(MValidate(o))
                         /\ WF_vars(MConfirm(o))
                         /\ WF_vars(MTimer(o))
    /\ \A r \in Releases : WF_vars(wf[r.order].pc # "done" /\ MExecRelease(r))

\* The in-memory implementation under its scheduling guarantees, one order
\* driven by signals.
SpecMemFair == InitMemSolo /\ [][NextMem]_vars /\ FairMem

-----------------------------------------------------------------------------
(* The inventory as both implementations show it.                          *)

\* The status of a seat: "available", "held" or "booked".
SeatStatus(i, st, s) == IF impl = "mem" THEN i.status[s] ELSE st[s].status

\* The order holding a seat, None without a hold.
Holder(i, st, s) ==
    IF impl = "mem"
    THEN (IF i.status[s] = "held" THEN i.holds[s] ELSE None)
    ELSE (IF st[s].status = "held" THEN st[s].held_by_order ELSE None)

\* The heldUntil of a seat, NoTime without a hold.
HeldUntil(i, st, s) ==
    IF impl = "mem" THEN i.expiry[s] ELSE st[s].held_until

-----------------------------------------------------------------------------
(* C1: mutual exclusion.                                                   *)

\* C1: a seat has one holder at most, and a seat that order A holds under
\* a hold that has not expired (heldUntil is not before now) is not held by
\* a different order B after any step.
C1_MutualExclusion ==
    [][\A s \in Seats :
         LET a == Holder(inv, seats, s) IN
         (a \in Orders /\ HeldUntil(inv, seats, s) >= now)
            => Holder(inv', seats', s) \in {a, None}]_vars

\* C1 witness (in-memory): an order was refused with "not available" while
\* the other order holds every seat unexpired and nothing was ever booked.
C1_Witness ==
    /\ impl = "mem"
    /\ \A o \in Orders : validated[o] = 0
    /\ \E a, b \in Orders :
          /\ a # b
          /\ \A s \in Seats : Holder(inv, seats, s) = a /\ HeldUntil(inv, seats, s) >= now
          /\ wf[b].failure = "not available"

-----------------------------------------------------------------------------
(* C2: no double-booking.                                                  *)

\* C2: a seat that is booked stays booked: no step makes it available or
\* held again.
C2_BookedStaysBooked ==
    [][\A s \in Seats :
         SeatStatus(inv, seats, s) = "booked" => SeatStatus(inv', seats', s) = "booked"]_vars

-----------------------------------------------------------------------------
(* The order as both implementations show it.                              *)

OrderStatus(w, ord, o) == IF impl = "mem" THEN w[o].status ELSE ord[o].status

OrderSeats(w, ord, o) == IF impl = "mem" THEN SeqToSet(w[o].seatIDs) ELSE ord[o].seats

PaymentAttempts(w, ord, o) ==
    IF impl = "mem" THEN w[o].attempts ELSE ord[o].payment_attempts

\* The step is a hold request of order o for the seats ids.
HoldRequest(o, ids) ==
    \/ MStart(o, ids)
    \/ MReserve(o) /\ wf[o].sig = ids
    \/ SvcSelectSeats(o, ids)

\* After the step order o holds every seat of ids until one instant.
AllHeld(o, ids) ==
    \E t \in 1..(MaxTime + SeatHoldDuration) :
       \A s \in SeqToSet(ids) :
          Holder(inv', seats', s) = o /\ HeldUntil(inv', seats', s) = t

\* The step gives order o no seat it did not hold and moves no expiry of it.
NoneNewlyHeld(o) ==
    \A s \in Seats :
       Holder(inv', seats', s) = o
          => /\ Holder(inv, seats, s) = o
             /\ HeldUntil(inv', seats', s) = HeldUntil(inv, seats, s)

\* Before the step every seat of ids is free for order o to take when
\* expired holds of other orders count as free, and at least one of them is
\* such an expired hold.
OnlyExpiredInTheWay(o, ids) ==
    /\ \A s \in SeqToSet(ids) :
          \/ SeatStatus(inv, seats, s) = "available"
          \/ Holder(inv, seats, s) = o
          \/ Holder(inv, seats, s) \in Orders /\ HeldUntil(inv, seats, s) < now
    /\ \E s \in SeqToSet(ids) :
          /\ Holder(inv, seats, s) \in Orders \ {o}
          /\ HeldUntil(inv, seats, s) < now

-----------------------------------------------------------------------------
(* C3: atomic multi-seat hold.                                             *)

\* C3: a hold request for a list of seats ends with every requested seat
\* held by the requester until one common heldUntil, or with no seat newly
\* held by the requester.
C3_AtomicHold ==
    [][\A o \in Orders : \A ids \in SeatLists :
         HoldRequest(o, ids) => (AllHeld(o, ids) \/ NoneNewlyHeld(o))]_vars

\* C3 witness: an order holds both seats of its two-seat request until
\* the same instant.
C3_Witness ==
    \E o \in Orders :
       /\ OrderSeats(wf, orders, o) = Seats
       /\ \A s \in Seats : Holder(inv, seats, s) = o
       /\ \A s, t \in Seats : HeldUntil(inv, seats, s) = HeldUntil(inv, seats, t)

-----------------------------------------------------------------------------
(* C4: lazy expiry, in-memory inventory.                                   *)

\* C4: ReserveSeats by one order succeeds on seats whose only obstacle is
\* the hold of another order with heldUntil before now, whether or not a
\* release has run.
C4_LazyExpiryMem ==
    [][\A o \in Orders : \A ids \in SeatLists :
         (impl = "mem" /\ HoldRequest(o, ids) /\ OnlyExpiredInTheWay(o, ids))
            => AllHeld(o, ids)]_vars

\* C4 witness: the only signal sent was the payment of order a, which is
\* still being validated and never released its seats; a seat of a is now
\* held by order b.
C4_Witness ==
    \E a, b \in Orders : \E s \in Seats :
       /\ impl = "mem" /\ a # b
       /\ budget = MaxSignals - 1
       /\ wf[a].pc = "validate"
       /\ s \in SeqToSet(wf[a].seatIDs)
       /\ pendingRel = {}
       /\ Holder(inv, seats, s) = b

-----------------------------------------------------------------------------
(* C5: lazy expiry, persistent store.                                      *)

\* C5: HoldSeats by one order succeeds on seats whose only obstacle is the
\* hold of another order with held_until before now, whether or not
\* release_expired_holds has run.
C5_LazyExpiryDB ==
    [][\A o \in Orders : \A ids \in SeatLists :
         (impl = "db" /\ HoldRequest(o, ids) /\ OnlyExpiredInTheWay(o, ids))
            => AllHeld(o, ids)]_vars

-----------------------------------------------------------------------------
(* C6: terminal immutability.                                              *)

\* The step is a SelectSeats, SubmitPayment or Cancel request or signal
\* for order o.
Request(o) ==
    \/ \E ids \in SeatLists : MSelectSeats(o, ids) \/ SvcSelectSeats(o, ids)
    \/ \E code \in Codes : MSubmitPayment(o, code)
    \/ SvcSubmitPayment(o)
    \/ MCancel(o)
    \/ SvcCancelOrder(o)

\* The step leaves the fields of order o and the state of its seats alone.
OrderUntouched(o) ==
    /\ IF impl = "mem"
       THEN /\ wf'[o].status = wf[o].status
            /\ wf'[o].seatIDs = wf[o].seatIDs
            /\ wf'[o].total = wf[o].total
            /\ wf'[o].attempts = wf[o].attempts
            /\ wf'[o].holdExpiry = wf[o].holdExpiry
            /\ wf'[o].failure = wf[o].failure
       ELSE orders'[o] = orders[o]
    /\ \A s \in OrderSeats(wf, orders, o) :
          /\ SeatStatus(inv', seats', s) = SeatStatus(inv, seats, s)
          /\ Holder(inv', seats', s) = Holder(inv, seats, s)

\* C6: once an order is Confirmed, Failed, Cancelled or Expired, no
\* SelectSeats, SubmitPayment or Cancel request changes any of its fields
\* or the state of its seats.
C6_TerminalImmutable ==
    [][\A o \in Orders :
         (OrderStatus(wf, orders, o) \in Terminal /\ Request(o)) => OrderUntouched(o)]_vars

-----------------------------------------------------------------------------
(* C7: cancel after confirmation.                                          *)

\* C7: a Cancel for an order that is Confirmed, its seats booked, leaves
\* the order Confirmed and its seats booked.
C7_CancelAfterConfirmed ==
    [][\A o \in Orders :
         (/\ OrderStatus(wf, orders, o) = "confirmed"
          /\ \A s \in OrderSeats(wf, orders, o) : SeatStatus(inv, seats, s) = "booked"
          /\ (MCancel(o) \/ SvcCancelOrder(o)))
            => /\ OrderStatus(wf', orders', o) = "confirmed"
               /\ \A s \in OrderSeats(wf, orders, o) :
                     SeatStatus(inv', seats', s) = SeatStatus(inv, seats, s)]_vars

-----------------------------------------------------------------------------
(* C8: the attempt ceiling.                                                *)

\* C8: paymentAttempts never exceeds 3 and the payment validator runs at
\* most 3 times for an order.
C8_AttemptCeiling ==
    \A o \in Orders :
       /\ PaymentAttempts(wf, orders, o) <= MaxPaymentRetries
       /\ validated[o] <= MaxPaymentRetries

-----------------------------------------------------------------------------
(* C9: attempts of a Failed order.                                         *)

-----------------------------------------------------------------------------
(* C10: confirmation implies booking.                                      *)

\* C10: whenever an order is Confirmed, every seat of its seatIds is
\* booked.  The instant between the two writes of ValidatePayment (status
\* confirmed, then BookSeats) is not held against the claim.
C10_ConfirmedImpliesBooked ==
    \A o \in Orders :
       (OrderStatus(wf, orders, o) = "confirmed" /\ ~(impl = "db" /\ bwf[o].pc = "book"))
          => \A s \in OrderSeats(wf, orders, o) : SeatStatus(inv, seats, s) = "booked"

-----------------------------------------------------------------------------
(* C11: booked only for a confirmed order.                                 *)

\* C11: a seat becomes booked only in a step after which an order that has
\* it among its seats is Confirmed; a commit that fails on a later seat
\* books nothing for the order it leaves Failed.
C11_BookedOnlyWhenConfirmed ==
    [][\A s \in Seats :
         (SeatStatus(inv, seats, s) # "booked" /\ SeatStatus(inv', seats', s) = "booked")
            => \E o \in Orders :
                  /\ s \in OrderSeats(wf', orders', o)
                  /\ OrderStatus(wf', orders', o) = "confirmed"]_vars

-----------------------------------------------------------------------------
(* C12: a conflicting hold changes nothing.                                *)

\* Before the step a seat of ids is held by another order than o under a
\* hold that has not expired.
Conflicting(o, ids) ==
    \E s \in SeqToSet(ids) :
       /\ Holder(inv, seats, s) \in Orders \ {o}
       /\ HeldUntil(inv, seats, s) >= now

\* The step changes no seat's status, holder or heldUntil.
SeatsUntouched == inv' = inv /\ seats' = seats

\* C12: a hold request of order o that names a seat another order holds
\* unexpired changes no seat's status, holder or heldUntil.
C12_ConflictChangesNothing ==
    [][\A o \in Orders : \A ids \in SeatLists :
         (HoldRequest(o, ids) /\ Conflicting(o, ids)) => SeatsUntouched]_vars

-----------------------------------------------------------------------------
(* C13: hold expiry.                                                       *)

\* C13: an order that is SeatsSelected or Processing when the clock has
\* passed its holdExpiry leaves that status only for Expired, with the
\* hold-expired failure reason.
C13_HoldExpiry ==
    [][\A o \in Orders :
         (/\ impl = "mem"
          /\ wf[o].status \in {"seats_selected", "processing"}
          /\ wf[o].holdExpiry # NoTime /\ now > wf[o].holdExpiry
          /\ wf'[o].status # wf[o].status)
            => /\ wf'[o].status = "expired"
               /\ wf'[o].failure = "Seat hold expired"]_vars

-----------------------------------------------------------------------------
(* C14: malformed payment codes.                                           *)

\* The validation of the malformed code order o submitted ends.
MalformedValidated(o) ==
    /\ MValidate(o)
    /\ wf[o].sig = <<"malformed">>

\* C14: the validation of a malformed payment code consumes no attempt (the
\* order had made none before the submission), puts the order back in
\* SeatsSelected and keeps its seats held: no seat changes and no release of
\* its seats is started.
C14_MalformedConsumesNothing ==
    [][\A o \in Orders :
         MalformedValidated(o)
            => /\ wf'[o].attempts = 0
               /\ wf'[o].status = "seats_selected"
               /\ inv' = inv
               /\ pendingRel' = pendingRel]_vars

-----------------------------------------------------------------------------
(* C15: three retryable rejections.                                        *)

\* Order o has failed on its third retryable rejection.
FailedAfterThree(o) ==
    /\ impl = "mem"
    /\ wf[o].status = "failed"
    /\ wf[o].attempts = MaxPaymentRetries
    /\ wf[o].failure \in {"declined", "timeout"}

\* No seat of order o is held by it.
SeatsGivenUp(o) ==
    \A s \in OrderSeats(wf, orders, o) : Holder(inv, seats, s) # o

\* C15: an order that has failed on its third retryable rejection has
\* paymentAttempts = 3, and its seats are released: eventually none of them
\* is held by it any more.
C15_ThreeRejections ==
    \A o \in Orders : FailedAfterThree(o) ~> SeatsGivenUp(o)

-----------------------------------------------------------------------------
(* C16: re-selection.                                                      *)

\* The seats order o holds in the inventory.
HeldBy(i, st, o) == {s \in Seats : Holder(i, st, s) = o}

\* The expiry the order itself records for its hold.
OrderExpiry(o) ==
    IF impl = "mem" THEN wf[o].holdExpiry ELSE orders[o].reservation_expires_at

\* The step completes a re-selection of order o, SeatsSelected with an
\* unexpired hold, to the seats ids: the reservation of the new seats
\* succeeds and the order records them.
Reselected(o, ids) ==
    /\ OrderStatus(wf, orders, o) = "seats_selected"
    /\ now <= OrderExpiry(o)
    /\ (MReserve(o) /\ wf[o].sig = ids) \/ SvcSelectSeats(o, ids)
    /\ AllHeld(o, ids)
    /\ OrderStatus(wf', orders', o) = "seats_selected"

\* C16: a re-selection is one atomic step: up to the step that reserves the
\* new seats the order holds exactly its old seats (never neither), and from
\* that step on it holds exactly the new ones (never both).
C16_AtomicReselection ==
    [][\A o \in Orders : \A ids \in SeatLists :
         Reselected(o, ids)
            => /\ HeldBy(inv, seats, o) = OrderSeats(wf, orders, o)
               /\ HeldBy(inv', seats', o) = SeqToSet(ids)]_vars

-----------------------------------------------------------------------------
(* C17: cancel.                                                            *)

\* The step handles a cancel of order o.
Cancel(o) == MCancel(o) \/ SvcCancelOrder(o)

\* C17: a cancel handled while the order is not terminal makes it
\* Cancelled, and a Cancelled order's seats are released: eventually none of
\* them is held by it.
C17_CancelReleases ==
    /\ [][\A o \in Orders :
            (Cancel(o) /\ OrderStatus(wf, orders, o) \notin Terminal)
               => OrderStatus(wf', orders', o) = "cancelled"]_vars
    /\ \A o \in Orders :
          (OrderStatus(wf, orders, o) = "cancelled") ~> SeatsGivenUp(o)

-----------------------------------------------------------------------------
(* C18: commit.                                                            *)

\* Every seat order o lists is held by it.
HoldsItsSeats(o) ==
    \A s \in OrderSeats(wf, orders, o) : Holder(inv, seats, s) = o

\* C18: ConfirmBooking succeeds exactly when every listed seat is held by the
\* order, and then every listed seat is booked; otherwise it fails with the
\* not-held error and changes no seat.
C18_CommitAllOrNothing ==
    [][\A o \in Orders :
         MConfirm(o)
            => IF HoldsItsSeats(o)
               THEN /\ wf'[o].status = "confirmed"
                    /\ \A s \in OrderSeats(wf, orders, o) :
                          SeatStatus(inv', seats', s) = "booked"
               ELSE /\ wf'[o].status = "failed"
                    /\ wf'[o].failure = "not held"
                    /\ inv' = inv]_vars

-----------------------------------------------------------------------------
(* C19: release.                                                           *)

\* The step leaves the status, holder and heldUntil of seat s alone.
SeatSame(s) ==
    /\ SeatStatus(inv', seats', s) = SeatStatus(inv, seats, s)
    /\ Holder(inv', seats', s) = Holder(inv, seats, s)
    /\ HeldUntil(inv', seats', s) = HeldUntil(inv, seats, s)

\* The step runs a release for order o that lists the seats S: the
\* ReleaseSeats activity of the in-memory inventory with its seat list, or
\* Repository.ReleaseSeats, which takes the order alone and so lists every seat.
ReleaseRun(o, S) ==
    \/ \E ids \in SeatLists :
          /\ S = SeqToSet(ids)
          /\ MExecRelease([order |-> o, seats |-> ids])
    \/ /\ S = Seats
       /\ \/ SvcCancelOrder(o)
          \/ \E a \in acts : a.order = o /\ a.name = "ReleaseSeats" /\ BExecActivity(a)

\* C19: a release for order o makes available exactly the listed seats that
\* o holds and leaves every other seat (held by another order, booked, not
\* listed) unchanged; a second release of the same seats changes nothing more.
C19_ReleaseOwnerScoped ==
    /\ [][\A o \in Orders : \A S \in SUBSET Seats :
            ReleaseRun(o, S)
               => \A s \in Seats :
                     IF s \in S /\ Holder(inv, seats, s) = o
                     THEN /\ SeatStatus(inv', seats', s) = "available"
                          /\ Holder(inv', seats', s) = None
                     ELSE SeatSame(s)]_vars
    /\ [](\A o \in Orders :
            /\ RepoReleaseSeats(RepoReleaseSeats(seats, o), o) = RepoReleaseSeats(seats, o)
            /\ \A ids \in SeatLists :
                  ReleaseSeats(ReleaseSeats(inv, o, ids, 1), o, ids, 1)
                     = ReleaseSeats(inv, o, ids, 1))

-----------------------------------------------------------------------------
(* C20: the total amount.                                                  *)

\* The amount the order records.
TotalAmount(w, ord, o) == IF impl = "mem" THEN w[o].total ELSE ord[o].total_amount

\* C20: after a successful selection of the seats ids by order o, its
\* totalAmount is the sum of the prices of all the seats of ids, those it
\* already held included.
C20_TotalIsSumOfPrices ==
    [][\A o \in Orders : \A ids \in SeatLists :
         (HoldRequest(o, ids) /\ AllHeld(o, ids))
            => TotalAmount(wf', orders', o) = SumPrice(ids, 1)]_vars

-----------------------------------------------------------------------------
(* C21: a failed seat selection.                                           *)

\* The step ends a seat selection of order o, SeatsSelected with an
\* unexpired hold, in failure: the reservation of the requested seats is
\* refused.
SelectFailed(o) ==
    /\ OrderStatus(wf, orders, o) = "seats_selected"
    /\ now <= OrderExpiry(o)
    /\ \/ MReserve(o) /\ ~ReserveSeats(inv, o, wf[o].sig, now).ok
       \/ \E ids \in SeatLists :
             SvcSelectSeats(o, ids) /\ ~HoldSeats(seats, orders, o, ids, now).ok

\* A release of seats of order o has been started and has not run.
ReleasePending(o) ==
    \/ \E r \in pendingRel : r.order = o
    \/ \E a \in acts : a.order = o /\ a.name = "ReleaseSeats"

\* C21: a seat selection that fails leaves the order's status, seats, total
\* and holdExpiry as they were, and the seats the order held are still held
\* by it: it holds exactly its seats and no release of them is under way.
C21_FailedSelectKeepsOrder ==
    [][\A o \in Orders :
         SelectFailed(o)
            => /\ OrderStatus(wf', orders', o) = OrderStatus(wf, orders, o)
               /\ OrderSeats(wf', orders', o) = OrderSeats(wf, orders, o)
               /\ TotalAmount(wf', orders', o) = TotalAmount(wf, orders, o)
               /\ OrderExpiry(o)' = OrderExpiry(o)
               /\ HeldBy(inv', seats', o) = OrderSeats(wf', orders', o)
               /\ ~ReleasePending(o)']_vars

-----------------------------------------------------------------------------
(* C22: seat selection while a payment is processing.                      *)

\* The step handles a seat-selection request of order o.
SelectRequest(o) ==
    \E ids \in SeatLists : MSelectSeats(o, ids) \/ SvcSelectSeats(o, ids)

\* C22: a seat-selection request handled while the order is Processing
\* changes neither the order's status, seats or holdExpiry nor any seat.
C22_NoSelectWhileProcessing ==
    [][\A o \in Orders :
         (SelectRequest(o) /\ OrderStatus(wf, orders, o) = "processing")
            => /\ OrderStatus(wf', orders', o) = "processing"
               /\ OrderSeats(wf', orders', o) = OrderSeats(wf, orders, o)
               /\ OrderExpiry(o)' = OrderExpiry(o)
               /\ SeatsUntouched]_vars

-----------------------------------------------------------------------------
(* C23: payment after the hold has expired.                                *)

\* The step handles a payment submission of order o, which awaits payment
\* with a hold whose expiry has passed.
PaymentAfterExpiry(o) ==
    /\ SvcSubmitPayment(o)
    /\ orders[o].status \in {"seats_selected", "awaiting_payment"}
    /\ orders[o].reservation_expires_at # NoTime
    /\ now > orders[o].reservation_expires_at

\* C23: a payment submitted after holdExpiry has passed is rejected: it is
\* not let through to the validator, paymentAttempts stays as it was, the
\* order becomes Expired and none of its seats stays held by it.
C23_PaymentAfterExpiryRejected ==
    [][\A o \in Orders :
         PaymentAfterExpiry(o)
            => /\ passed' = passed
               /\ validated' = validated
               /\ PaymentAttempts(wf', orders', o) = PaymentAttempts(wf, orders, o)
               /\ OrderStatus(wf', orders', o) = "expired"
               /\ \A s \in Seats : seats'[s].held_by_order # o]_vars

-----------------------------------------------------------------------------
(* C24: a retryable payment failure.                                       *)

\* The step ends a payment attempt of order o, Processing, in a retryable
\* failure that leaves attempts: the validator declined (or timed out) and
\* the attempt was not the third.
RetryableFailure(o) ==
    \/ MValidate(o) /\ wf'[o].pc = "validate"
    \/ /\ ValidatePaymentOutcome(o, "declined")
       /\ orders[o].status = "processing"
       /\ bwf[o].paymentAttempts < MaxPaymentRetries
       /\ ~bwf[o].cancelled

\* After the step a further payment attempt of order o is on its way: the
\* signal-driven workflow submits the code again itself, the database-backed
\* one has started the update to awaiting_payment, the status from which
\* SubmitPayment is accepted.
CanPayAgain(o) ==
    IF impl = "mem"
    THEN /\ wf'[o].status = "processing"
         /\ wf'[o].attempt <= MaxPaymentRetries
    ELSE /\ orders'[o].status = "processing"
         /\ [order |-> o, name |-> "UpdateOrderStatus", arg |-> "awaiting_payment"]
               \in acts'

-----------------------------------------------------------------------------
(* C25: the timer after a terminal transition.                             *)

\* The hold-expiry timer of order o fires in the step.
TimerFires(o) == MTimer(o) \/ BTimer(o)

\* C25: once an order is Confirmed, Failed or Cancelled its hold-expiry
\* timer is disarmed: a timer that fires for it changes neither its status
\* nor any seat and starts no release.
C25_TimerDisarmed ==
    [][\A o \in Orders :
         (TimerFires(o)
             /\ OrderStatus(wf, orders, o) \in {"confirmed", "failed", "cancelled"})
            => /\ OrderStatus(wf', orders', o) = OrderStatus(wf, orders, o)
               /\ SeatsUntouched
               /\ acts' = acts
               /\ pendingRel' = pendingRel]_vars

-----------------------------------------------------------------------------
(* C26: cancel against an in-flight payment.                               *)

\* The step commits the seats of order o.
Commit(o) == MConfirm(o) \/ BBookSeats(o)

\* C26: a cancel and a payment validation of the same order are serialized:
\* a Cancelled order never becomes Confirmed, and a commit that comes after
\* the cancel books nothing.
C26_CancelVersusCommit ==
    [][\A o \in Orders :
         OrderStatus(wf, orders, o) = "cancelled"
            => /\ OrderStatus(wf', orders', o) # "confirmed"
               /\ Commit(o) => SeatsUntouched]_vars

-----------------------------------------------------------------------------
(* C27: a signal delivered twice.                                          *)

\* The step completes a seat selection of order o for the seats ids that
\* the order, SeatsSelected with an unexpired hold, has already selected:
\* the same selection delivered again.
SelectedAgain(o, ids) ==
    /\ OrderStatus(wf, orders, o) = "seats_selected"
    /\ now <= OrderExpiry(o)
    /\ OrderSeats(wf, orders, o) = SeqToSet(ids)
    /\ (MReserve(o) /\ wf[o].sig = ids) \/ SvcSelectSeats(o, ids)

\* A started release of order o that names a seat of ids has not run.
ReleaseOfPending(o, ids) ==
    \/ \E r \in pendingRel : r.order = o /\ SeqToSet(r.seats) \cap SeqToSet(ids) # {}
    \/ \E a \in acts : a.order = o /\ a.name = "ReleaseSeats"

\* C27: a seat selection delivered a second time leaves what the first
\* delivery left: the same seats held by the order, with no release of them
\* under way, and the same totalAmount.
C27_SelectTwiceAsOnce ==
    [][\A o \in Orders : \A ids \in SeatLists :
         SelectedAgain(o, ids)
            => /\ HeldBy(inv', seats', o) = SeqToSet(ids)
               /\ ~ReleaseOfPending(o, ids)'
               /\ TotalAmount(wf', orders', o) = TotalAmount(wf, orders, o)]_vars

-----------------------------------------------------------------------------
(* C28: orders that ended without a booking.                               *)

\* C28: an order that is Failed, Cancelled or Expired holds no seat, at the
\* latest once every release started for it has run.
C28_EndedHoldsNothing ==
    \A o \in Orders :
       (OrderStatus(wf, orders, o) \in {"failed", "cancelled", "expired"}
           /\ ~ReleasePending(o))
          => HeldBy(inv, seats, o) = {}

-----------------------------------------------------------------------------
(* C29: commit of an expired hold.                                         *)

\* C29: a commit of order o performed after the heldUntil of a seat it
\* holds does not make that seat booked.
C29_ExpiredHoldNotCommitted ==
    [][\A o \in Orders : \A s \in Seats :
         (/\ Commit(o)
          /\ Holder(inv, seats, s) = o
          /\ HeldUntil(inv, seats, s) # NoTime
          /\ now > HeldUntil(inv, seats, s))
            => SeatStatus(inv', seats', s) # "booked"]_vars

-----------------------------------------------------------------------------
(* C30: what a conflict reports.                                           *)

\* hub.NotifySeatConflict(flightID, orderID, seatIDs): the seats of the
\* seat_conflict message.
NotifySeatConflict(ids) == SeqToSet(ids)

\* The seats the refused request of order o for ids reports: the seat named
\* in the error of ReserveSeats, or the seats of the seat_conflict message.
ConflictListed(o, ids) ==
    IF impl = "mem" THEN ReserveSeats(inv, o, ids, now).named
    ELSE NotifySeatConflict(ids)

\* The requested seats that order o cannot take now, by the test of the
\* implementation itself.
Unacquirable(o, ids) ==
    IF impl = "mem"
    THEN {s \in SeqToSet(ids) : /\ inv.status[s] # "available"
                                /\ inv.holds[s] # o
                                /\ ~HoldExpired(inv, s, now)}
    ELSE {s \in SeqToSet(ids) : /\ seats[s].status # "available"
                                /\ seats[s].held_by_order # o}

\* The step is a hold request of order o for ids that is refused.
HoldRefused(o, ids) ==
    /\ HoldRequest(o, ids)
    /\ IF impl = "mem" THEN ~ReserveSeats(inv, o, ids, now).ok
       ELSE ~HoldSeats(seats, orders, o, ids, now).ok

\* C30: a refused hold request reports exactly the requested seats that
\* could not be acquired.
C30_ConflictListsExactly ==
    [][\A o \in Orders : \A ids \in SeatLists :
         HoldRefused(o, ids) => ConflictListed(o, ids) = Unacquirable(o, ids)]_vars

-----------------------------------------------------------------------------
(* C31: a validator that errs or times out.                                *)

\* The step ends a payment attempt of order o, Processing, in a transport
\* error or timeout of the validator.
ValidatorError(o) ==
    \/ MValidateResult(o, [success |-> FALSE, canRetry |-> TRUE, err |-> "timeout"])
    \/ /\ ValidatePaymentOutcome(o, "error")
       /\ orders[o].status = "processing"
       /\ ~bwf[o].cancelled

\* After the step order o is Failed, or on its way there, with the release
\* of its seats started.
FailedWithRelease(o) ==
    /\ ReleasePending(o)'
    /\ IF impl = "mem" THEN wf'[o].status = "failed"
       ELSE [order |-> o, name |-> "ReleaseSeats", arg |-> "payment_failed"] \in acts'

\* C31: a validator error or timeout is handled like a retryable decline:
\* afterwards the order can pay again with its seats still held, or it is
\* Failed with its seats released; it is not left in Processing.
C31_ValidatorErrorAsDecline ==
    [][\A o \in Orders :
         ValidatorError(o)
            => \/ CanPayAgain(o) /\ HeldBy(inv', seats', o) = HeldBy(inv, seats, o)
               \/ FailedWithRelease(o)]_vars

-----------------------------------------------------------------------------
(* C32: the edges of the order state machine.                              *)

\* The state of the state machine that a stored status stands for:
\* awaiting_payment is the state after a retryable failure, from which
\* SubmitPayment is accepted as from seats_selected.
MachineState(status) ==
    IF status = "awaiting_payment" THEN "seats_selected" ELSE status

\* The edges Pending -> SeatsSelected -> Processing ->
\* {Confirmed, SeatsSelected, Failed}, and Cancelled and Expired from any
\* state that is not terminal.
AllowedEdge(a, b) ==
    \/ a = "pending" /\ b = "seats_selected"
    \/ a = "seats_selected" /\ b = "processing"
    \/ a = "processing" /\ b \in {"confirmed", "seats_selected", "failed"}
    \/ a \notin Terminal /\ b \in {"cancelled", "expired"}

\* C32: every change of an order's status follows an allowed edge; the
\* status of a Confirmed, Failed, Cancelled or Expired order never changes.
C32_AllowedEdges ==
    [][\A o \in Orders :
         LET a == MachineState(OrderStatus(wf, orders, o))
             b == MachineState(OrderStatus(wf', orders', o))
         IN  a # b => AllowedEdge(a, b)]_vars

-----------------------------------------------------------------------------
(* C33: the fields of a seat record.                                       *)

\* The stored holder of a seat (inventory.holds[seatID], seats.held_by_order),
\* whatever its status.
StoredHolder(s) == IF impl = "mem" THEN inv.holds[s] ELSE seats[s].held_by_order

\* The stored expiry of a seat (inventory.expiry[seatID], seats.held_until).
StoredExpiry(s) == IF impl = "mem" THEN inv.expiry[s] ELSE seats[s].held_until

\* C33: a seat has a holder and an expiry if and only if it is Held;
\* Available and Booked seats have neither.
C33_SeatWellFormed ==
    \A s \in Seats :
       /\ StoredHolder(s) # None <=> SeatStatus(inv, seats, s) = "held"
       /\ StoredExpiry(s) # NoTime <=> SeatStatus(inv, seats, s) = "held"

-----------------------------------------------------------------------------
(* Repository.HoldSeats statement by statement: two transactions on the    *)
(* seats table.  A row written by a transaction stays locked until the     *)
(* transaction ends; an UPDATE that finds its row locked waits, and reads   *)
(* the row again when the lock is gone.                                     *)

\* The seat lists of racing requests, in either order of the seats.
RaceLists == {<<"s1">>, <<"s2">>, <<"s1", "s2">>, <<"s2", "s1">>}

\* The transaction of order o holds the lock of row s.
LockedByOther(o, s) == \E p \in Orders \ {o} : s \in tx[p].locked

\* WHERE id = $3 AND (status = 'available' OR held_by_order = $2), on the
\* committed row.
RowMatches(o, s) == seats[s].status = "available" \/ seats[s].held_by_order = o

\* The transaction of order o is at the UPDATE of a seat whose row another
\* transaction has locked: it waits.
Blocked(o) ==
    /\ tx[o].pc = "run"
    /\ tx[o].k <= Len(tx[o].ids)
    /\ tx[o].ids[tx[o].k] \notin tx[o].locked
    /\ LockedByOther(o, tx[o].ids[tx[o].k])
    /\ RowMatches(o, tx[o].ids[tx[o].k])

\* defer tx.Rollback(ctx): the writes and locks of the transaction are gone.
Rollback(o, result) ==
    tx' = [tx EXCEPT ![o] = [IdleTx EXCEPT !.pc = "done", !.ids = tx[o].ids,
                                           !.result = result]]

\* pool.Begin and the first statement: the rows held_by_order = $1 are
\* written available.
TxBegin(o, ids) ==
    /\ impl = "db"
    /\ tx[o].pc = "idle"
    /\ LET mine == {s \in Seats : seats[s].held_by_order = o} IN
       /\ \A s \in mine : ~LockedByOther(o, s)
       /\ tx' = [tx EXCEPT ![o] = [IdleTx EXCEPT !.pc = "run", !.ids = ids, !.k = 1,
                                                 !.until = now + SeatHoldDuration,
                                                 !.locked = mine]]
    /\ UNCHANGED <<impl, now, memVars, seats, orders, passed, bwf, signals, acts,
                   getVars, validated, actors, budget>>

\* One iteration of the loop: the UPDATE of seat ids[k].  No row updated is
\* ErrSeatNotAvailable and the transaction is rolled back.
TxHoldSeat(o) ==
    /\ impl = "db"
    /\ tx[o].pc = "run"
    /\ tx[o].k <= Len(tx[o].ids)
    /\ ~Blocked(o)
    /\ LET s == tx[o].ids[tx[o].k] IN
       IF s \in tx[o].locked \/ RowMatches(o, s)
       THEN tx' = [tx EXCEPT ![o].k = @ + 1,
                             ![o].locked = @ \cup {s},
                             ![o].rows[s] = [status |-> "held", held_by_order |-> o,
                                             held_until |-> tx[o].until]]
       ELSE Rollback(o, "conflict")
    /\ UNCHANGED <<impl, now, memVars, seats, orders, passed, bwf, signals, acts,
                   getVars, validated, actors, budget>>

\* The UPDATE of the order and tx.Commit.
TxCommit(o) ==
    /\ impl = "db"
    /\ tx[o].pc = "run"
    /\ tx[o].k > Len(tx[o].ids)
    /\ seats' = [s \in Seats |-> IF s \in tx[o].locked THEN tx[o].rows[s] ELSE seats[s]]
    /\ orders' = [orders EXCEPT ![o].reservation_expires_at = tx[o].until,
                                ![o].status = "seats_selected"]
    /\ tx' = [tx EXCEPT ![o] = [IdleTx EXCEPT !.pc = "done", !.ids = tx[o].ids,
                                              !.result = "ok"]]
    /\ UNCHANGED <<impl, now, memVars, passed, bwf, signals, acts, getVars, validated,
                   actors, budget>>

\* Two transactions wait for each other's rows: the database ends one of
\* them with an error, which HoldSeats returns as "failed to hold seat".
TxDeadlock(o) ==
    /\ impl = "db"
    /\ Blocked(o)
    /\ \E p \in Orders \ {o} : /\ tx[o].ids[tx[o].k] \in tx[p].locked
                               /\ Blocked(p)
                               /\ tx[p].ids[tx[p].k] \in tx[o].locked
    /\ Rollback(o, "error")
    /\ UNCHANGED <<impl, now, memVars, seats, orders, passed, bwf, signals, acts,
                   getVars, validated, actors, budget>>

NextHoldRace ==
    \/ \E o \in Orders : \E ids \in RaceLists : TxBegin(o, ids)
    \/ \E o \in Orders : TxHoldSeat(o)
    \/ \E o \in Orders : TxCommit(o)
    \/ \E o \in Orders : TxDeadlock(o)

\* A transaction that has begun goes on: a statement that does not wait is
\* executed, and a deadlock is detected.
FairHoldRace ==
    \A o \in Orders : /\ WF_vars(TxHoldSeat(o))
                      /\ WF_vars(TxCommit(o))
                      /\ WF_vars(TxDeadlock(o))

\* HoldSeats calls of both orders on a flight whose seats are all available.
SpecHoldRace == InitDBBoth /\ [][NextHoldRace]_vars /\ FairHoldRace

-----------------------------------------------------------------------------
(* C34: racing holds.                                                      *)

\* HoldSeats of order o has returned nil and o holds every seat it asked for.
WonRace(o) ==
    /\ tx[o].result = "ok"
    /\ \A s \in SeqToSet(tx[o].ids) :
          seats[s].status = "held" /\ seats[s].held_by_order = o

\* HoldSeats of order o has returned ErrSeatNotAvailable and o holds none
\* of the seats it asked for.
LostRace(o) ==
    /\ tx[o].result = "conflict"
    /\ \A s \in SeqToSet(tx[o].ids) : seats[s].held_by_order # o

\* C34: two orders that ask for overlapping seats of a flight whose seats
\* are all available both get an answer; one of them then holds its seats
\* and the other has the conflict outcome and holds none of its seats.
C34_RacingHoldsSerialized ==
    /\ \A o \in Orders : (tx[o].pc = "run") ~> (tx[o].pc = "done")
    /\ [](\A o \in Orders : \A p \in Orders \ {o} :
            (/\ tx[o].pc = "done"
             /\ tx[p].pc = "done"
             /\ SeqToSet(tx[o].ids) \cap SeqToSet(tx[p].ids) # {})
               => \/ WonRace(o) /\ LostRace(p)
                  \/ WonRace(p) /\ LostRace(o))

-----------------------------------------------------------------------------
(* C35: every order that held seats ends.                                  *)

\* Order o has reserved seats: it is SeatsSelected with its seats and a
\* hold expiry.
HasHeldSeats(o) ==
    /\ wf[o].status = "seats_selected"
    /\ wf[o].seatIDs # <<>>
    /\ wf[o].holdExpiry # NoTime

\* The workflow of order o has returned with the order in a terminal state.
Returned(o) == wf[o].pc = "done" /\ wf[o].status \in Terminal

\* The hold of order o ends after the last instant of the clock.
BeyondClock(o) == wf[o].holdExpiry > MaxTime

\* C35: with timers and activities scheduled fairly and finitely many
\* signals, an order that has held seats reaches Confirmed, Failed,
\* Cancelled or Expired and its workflow returns (unless its hold ends
\* after the last instant of the clock).
C35_ReachesTerminal ==
    \A o \in Orders : HasHeldSeats(o) ~> (Returned(o) \/ BeyondClock(o))

\* The workflow of an order that held seats has returned after its timer.
C35_Witness ==
    \E o \in Orders :
       /\ wf[o].pc = "done"
       /\ wf[o].status = "expired"
       /\ wf[o].seatIDs # <<>>
       /\ wf[o].holdExpiry <= MaxTime

-----------------------------------------------------------------------------
(* C36: the database-backed workflow after a terminal status.              *)

\* Every activity the database-backed workflow can start.
Activities ==
    [order : Orders, name : {"UpdateOrderStatus"},
     arg : {"seats_selected", "processing", "awaiting_payment"}]
    \cup [order : Orders, name : {"ReleaseSeats"},
          arg : {"expired", "payment_failed"}]

\* What the scheduling guarantees of the database-backed workflow: time
\* passes, a queued signal is handled, an awaited activity completes, a
\* due timer fires, and a started activity runs as long as its workflow has
\* not returned.
FairDB ==
    /\ WF_vars(Tick)
    /\ \A o \in Orders : /\ WF_vars(BSeatsSelected(o))
                         /\ WF_vars(BPaymentSubmitted(o))
                         /\ WF_vars(BValidatePayment(o))
                         /\ WF_vars(BBookSeats(o))
                         /\ WF_vars(BTimer(o))
    /\ \A a \in Activities : WF_vars(bwf[a.order].pc # "done" /\ BExecActivity(a))

\* The database implementation under its scheduling guarantees.
SpecDBFair == InitDBBoth /\ [][NextDB]_vars /\ FairDB

\* C36: once the stored status of an order is confirmed, failed, cancelled
\* or expired, its database-backed workflow returns.
C36_WorkflowReturns ==
    \A o \in Orders : (orders[o].status \in Terminal) ~> (bwf[o].pc = "done")

-----------------------------------------------------------------------------
(* C37: the order and the inventory on the hold.                           *)

\* Order o is SeatsSelected and at rest: its hold has not run out, its
\* workflow waits for a signal and no release of its seats is on its way.
SeatsSelectedAtRest(o) ==
    /\ OrderStatus(wf, orders, o) = "seats_selected"
    /\ now <= OrderExpiry(o)
    /\ IF impl = "mem" THEN wf[o].pc = "wait" ELSE bwf[o].pc = "wait"
    /\ ~ReleasePending(o)

\* C37: while an order is SeatsSelected, each of its seats is held by it in
\* the inventory, with the heldUntil that is the order's holdExpiry; so a
\* refreshed holdExpiry is the heldUntil of the seats as well.
C37_OrderAndInventoryAgree ==
    \A o \in Orders :
       SeatsSelectedAtRest(o)
          => \A s \in OrderSeats(wf, orders, o) :
                /\ Holder(inv, seats, s) = o
                /\ HeldUntil(inv, seats, s) = OrderExpiry(o)

-----------------------------------------------------------------------------
(* C38: the release of the previous selection.                             *)

\* The step runs a release that order o started for an earlier selection,
\* after the select-seats handler has held the new seats: o is
\* SeatsSelected and its workflow waits for the next signal.
LateRelease(o) ==
    /\ impl = "mem"
    /\ wf[o].status = "seats_selected"
    /\ wf[o].pc = "wait"
    /\ \E r \in pendingRel : r.order = o /\ MExecRelease(r)

\* C38: in the signal-driven workflow the release of the previous
\* selection does not undo the new one: every seat of the new set that the
\* order holds when the handler has completed is still held by it after
\* the release has run.
C38_ReleaseKeepsNewSelection ==
    [][\A o \in Orders :
         LateRelease(o)
            => \A s \in SeqToSet(wf[o].seatIDs) :
                  Holder(inv, seats, s) = o => Holder(inv', seats', s) = o]_vars

-----------------------------------------------------------------------------
(* BookingService.GetOrder, called by several clients at once.             *)

\* The number of GetOrder calls of one client.
MaxCalls == 2
\* The number of requests sent to the BookingService while GetOrder is called.
MaxGetRequests == 2

\* A map whose LoadOrStore always reports the key as new.
LoadOrStoreBlind(store, key) == [loaded |-> FALSE, store |-> store \cup {key}]

\* sync.Map.LoadOrStore(key, true): whether the key was there, and the map
\* with the key, in one atomic operation.
LoadOrStore(store, key) == [loaded |-> key \in store, store |-> store \cup {key}]

\* GetOrderByID: the call of client c reads order o.
GetOrderRead(c, o) ==
    /\ impl = "db"
    /\ o \in actors
    /\ calls[c].pc = "idle"
    /\ calls[c].n < MaxCalls
    /\ calls' = [calls EXCEPT ![c] = [pc |-> "read", order |-> o,
                                      status |-> orders[o].status, n |-> @.n + 1]]
    /\ UNCHANGED <<impl, tx, now, memVars, dbVars, broadcastedOrders, sent, validated,
                   actors, budget>>

\* The status test and LoadOrStore: the call that stores the key goes on to
\* broadcast, any other returns.
GetOrderLoadOrStore(c) ==
    /\ impl = "db"
    /\ calls[c].pc = "read"
    /\ LET o == calls[c].order
           kind == IF calls[c].status = "confirmed" THEN "confirmed"
                   ELSE IF calls[c].status \in {"failed", "expired"} THEN "failed"
                   ELSE "none"
           r == LoadOrStore(broadcastedOrders, <<o, kind>>)
       IN  IF kind = "none"
           THEN /\ calls' = [calls EXCEPT ![c].pc = "idle"]
                /\ UNCHANGED broadcastedOrders
           ELSE /\ broadcastedOrders' = r.store
                /\ calls' = [calls EXCEPT ![c].pc = IF r.loaded THEN "idle"
                                                     ELSE "broadcast"]
    /\ UNCHANGED <<impl, tx, now, memVars, dbVars, sent, validated, actors, budget>>

\* GetOrderSeatIDs and hub.BroadcastOrderCompleted / BroadcastOrderExpired:
\* nothing is sent for an order without seats.
GetOrderBroadcast(c) ==
    /\ impl = "db"
    /\ calls[c].pc = "broadcast"
    /\ LET o == calls[c].order IN
       sent' = IF orders[o].seats = {} THEN sent
               ELSE IF calls[c].status = "confirmed"
               THEN [sent EXCEPT ![o].completed = @ + 1]
               ELSE [sent EXCEPT ![o].expired = @ + 1]
    /\ calls' = [calls EXCEPT ![c].pc = "idle"]
    /\ UNCHANGED <<impl, tx, now, memVars, dbVars, broadcastedOrders, validated, actors,
                   budget>>

NextGetOrder ==
    \/ NextDB
    \/ \E c \in Callers : \E o \in Orders : GetOrderRead(c, o)
    \/ \E c \in Callers : GetOrderLoadOrStore(c)
    \/ \E c \in Callers : GetOrderBroadcast(c)

InitDBGetOrder == impl = "db" /\ actors = {"o1"} /\ budget = MaxGetRequests /\ InitCommon

\* The database implementation, one order driven by requests, while two
\* clients call GetOrder.
SpecGetOrder == InitDBGetOrder /\ [][NextGetOrder]_vars

-----------------------------------------------------------------------------
(* C39: order_completed is broadcast once.                                 *)

\* A GetOrder call has seen order o Confirmed and has returned.
SeenConfirmed(c, o) ==
    /\ calls[c].order = o
    /\ calls[c].status = "confirmed"
    /\ calls[c].pc = "idle"

-----------------------------------------------------------------------------
(* C40: a payment for an order without seats.                              *)

\* The step handles a SubmitPayment for order o, which has no seats
\* selected: the signal in the signal-driven workflow, the request to the
\* BookingService, or the signal in the database-backed workflow.
PaymentWithoutSeats(o) ==
    \/ wf[o].seatIDs = <<>> /\ \E code \in Codes : MSubmitPayment(o, code)
    \/ orders[o].seats = {} /\ SvcSubmitPayment(o)
    \/ ~bwf[o].seatsSelected /\ orders[o].seats = {} /\ BPaymentSubmitted(o)

\* C40: a SubmitPayment for an order that has no seats selected does
\* nothing to the payment: the validator is not invoked, paymentAttempts
\* and the status stay as they are, and no seat changes.
C40_PaymentWithoutSeats ==
    [][\A o \in Orders :
         PaymentWithoutSeats(o)
            => /\ validated' = validated
               /\ wf'[o].pc # "validate" /\ bwf'[o].pc # "validate"
               /\ PaymentAttempts(wf', orders', o) = PaymentAttempts(wf, orders, o)
               /\ OrderStatus(wf', orders', o) = OrderStatus(wf, orders, o)
               /\ SeatsUntouched]_vars

=============================================================================
